---- MODULE Spec2Model ----
(***************************************************************************)
(* generateContent of src/utils/aiHelper.ts: one call of the adapter,      *)
(* from the request it is given to the promise it settles.  A call either  *)
(* builds a chat-completions request and awaits fetch and the body of the  *)
(* response (OpenAI compatible mode), or builds parts and a config and     *)
(* awaits the Gemini SDK (native mode).  The remote side is the            *)
(* environment: every await may resolve or reject.                         *)
(***************************************************************************)
EXTENDS Integers, Sequences, FiniteSets, TLC

VARIABLES
    req,         \* the AIRequest the call was given
    pc,          \* where the call stands: the await it is suspended at
    body,        \* the local `body` of compatible mode, once built
    fetchCalls,  \* the calls of fetch made so far: <<endpoint, init>>
    clients,     \* the GoogleGenAI clients constructed so far
    sdkCalls,    \* the calls of ai.models.generateContent made so far
    response,    \* what each await delivered: the Response, its body
    outcome,     \* the promise generateContent returned
    console      \* what console.error was given

vars == <<req, pc, body, fetchCalls, clients, sdkCalls, response, outcome,
          console>>

(***************************************************************************)
(* Strings are sequences of characters.  The literals of the source:       *)
(***************************************************************************)
DefaultMimeType ==
    <<"i", "m", "a", "g", "e", "/", "p", "n", "g">>

ChatCompletionsSuffix ==
    <<"/", "c", "h", "a", "t", "/", "c", "o", "m", "p", "l", "e",
      "t", "i", "o", "n", "s">>

JsonInstruction ==
    <<"\n", "\n", "P", "l", "e", "a", "s", "e", " ", "r", "e", "s",
      "p", "o", "n", "d", " ", "i", "n", " ", "v", "a", "l", "i",
      "d", " ", "J", "S", "O", "N", " ", "f", "o", "r", "m", "a",
      "t", ".">>

DataPrefix ==
    <<"d", "a", "t", "a", ":">>

Base64Marker ==
    <<";", "b", "a", "s", "e", "6", "4", ",">>

BearerPrefix ==
    <<"B", "e", "a", "r", "e", "r", " ">>

ApiErrorPrefix ==
    <<"A", "P", "I", " ", "E", "r", "r", "o", "r", " ">>

ColonSpace ==
    <<":", " ">>

NoContentMessage ==
    <<"N", "o", " ", "c", "o", "n", "t", "e", "n", "t", " ", "i",
      "n", " ", "r", "e", "s", "p", "o", "n", "s", "e">>

FailedPrefix ==
    <<"A", "I", " ", "R", "e", "q", "u", "e", "s", "t", " ", "F",
      "a", "i", "l", "e", "d", ":", " ">>

ApplicationJson ==
    <<"a", "p", "p", "l", "i", "c", "a", "t", "i", "o", "n", "/",
      "j", "s", "o", "n">>

JsonObjectMode ==
    <<"j", "s", "o", "n", "_", "o", "b", "j", "e", "c", "t">>

StartsWith(s, p) == Len(p) <= Len(s) /\ SubSeq(s, 1, Len(p)) = p

\* String.prototype.endsWith
EndsWith(s, p) ==
    Len(p) <= Len(s) /\ SubSeq(s, Len(s) - Len(p) + 1, Len(s)) = p

Contains(s, p) ==
    \E i \in 1..(Len(s) - Len(p) + 1) : SubSeq(s, i, i + Len(p) - 1) = p

(***************************************************************************)
(* JavaScript values, tagged by type.  An object keeps its properties in   *)
(* insertion order, as pairs <<key, value>>.                               *)
(***************************************************************************)
Undefined == [tag |-> "undefined"]

Null == [tag |-> "null"]

Str(s) == [tag |-> "string", val |-> s]

Bool(b) == [tag |-> "boolean", val |-> b]

Arr(items) == [tag |-> "array", items |-> items]

Obj(props) == [tag |-> "object", props |-> props]

\* ToBoolean: what `if (v)`, `!v` and `v || w` test
Truthy(v) ==
    CASE v.tag = "undefined" -> FALSE
      [] v.tag = "null" -> FALSE
      [] v.tag = "string" -> v.val /= <<>>
      [] v.tag = "boolean" -> v.val
      [] OTHER -> TRUE

\* v || w
OrElse(v, w) == IF Truthy(v) THEN v ELSE w

HasProp(v, k) == v.tag = "object" /\ \E i \in 1..Len(v.props) : v.props[i][1] = k

\* v.k on a value that is neither null nor undefined
Get(v, k) ==
    IF HasProp(v, k)
    THEN v.props[CHOOSE i \in 1..Len(v.props) : v.props[i][1] = k][2]
    ELSE Undefined

\* v?.k
OptGet(v, k) == IF v.tag \in {"undefined", "null"} THEN Undefined ELSE Get(v, k)

\* v?.[i], i counted from 0
OptIndex(v, i) ==
    IF v.tag = "array" /\ i + 1 <= Len(v.items) THEN v.items[i + 1]
    ELSE IF v.tag = "string" /\ i + 1 <= Len(v.val) THEN Str(<<v.val[i + 1]>>)
    ELSE Undefined

\* v.k = w: replaces the property in place, or adds it last
SetProp(v, k, w) ==
    IF HasProp(v, k)
    THEN Obj([i \in 1..Len(v.props) |->
                IF v.props[i][1] = k THEN <<k, w>> ELSE v.props[i]])
    ELSE Obj(Append(v.props, <<k, w>>))

(***************************************************************************)
(* The compatible-mode request, lines 24-78.                               *)
(***************************************************************************)
\* const mimeType = req.mimeType || 'image/png'
MimeType(r) == OrElse(r.mimeType, Str(DefaultMimeType))

\* `data:${mimeType};base64,${req.image}`
DataUri(mime, image) ==
    Str(DataPrefix \o mime.val \o Base64Marker \o image.val)

\* the image part pushed before the text part, as native mode orders them
UserContentImageFirst(r) ==
    Arr((IF Truthy(r.image)
         THEN <<Obj(<<<<"type", Str(<<"i", "m", "a", "g", "e", "_", "u", "r", "l">>)>>,
                      <<"image_url",
                        Obj(<<<<"url", DataUri(MimeType(r), r.image)>>>>)>>>>)>>
         ELSE <<>>)
        \o <<Obj(<<<<"type", Str(<<"t", "e", "x", "t">>)>>, <<"text", r.prompt>>>>)>>)

\* const content = [{ type: 'text', text: req.prompt }], and the image part
UserContent(r) ==
    Arr(<<Obj(<<<<"type", Str(<<"t", "e", "x", "t">>)>>, <<"text", r.prompt>>>>)>>
        \o (IF Truthy(r.image)
            THEN <<Obj(<<<<"type", Str(<<"i", "m", "a", "g", "e", "_", "u", "r", "l">>)>>,
                         <<"image_url",
                           Obj(<<<<"url", DataUri(MimeType(r), r.image)>>>>)>>>>)>>
            ELSE <<>>))

\* messages, as it stands after messages.push({ role: 'user', content })
Messages(r) ==
    (IF Truthy(r.systemInstruction)
     THEN <<Obj(<<<<"role", Str(<<"s", "y", "s", "t", "e", "m">>)>>,
                  <<"content", r.systemInstruction>>>>)>>
     ELSE <<>>)
    \o <<Obj(<<<<"role", Str(<<"u", "s", "e", "r">>)>>,
               <<"content", UserContent(r)>>>>)>>

\* the suffix added only to a content that is a string
AppendToStringOnly(msgs) ==
    LET n == Len(msgs)
        lastMsg == msgs[n]
        content == Get(lastMsg, "content")
    IN  IF content.tag = "string"
        THEN [msgs EXCEPT ![n] =
                SetProp(lastMsg, "content", Str(content.val \o JsonInstruction))]
        ELSE msgs

\* the suffix added to the last message: to its content when that is a
\* string, to the text of its first part when it is an array
AppendJsonInstruction(msgs) ==
    LET n == Len(msgs)
        lastMsg == msgs[n]
        content == Get(lastMsg, "content")
        first == content.items[1]
    IN  IF content.tag = "string"
        THEN [msgs EXCEPT ![n] =
                SetProp(lastMsg, "content", Str(content.val \o JsonInstruction))]
        ELSE IF content.tag = "array"
        THEN [msgs EXCEPT ![n] =
                SetProp(lastMsg, "content",
                    Arr([content.items EXCEPT ![1] =
                           SetProp(first, "text",
                               Str(Get(first, "text").val \o JsonInstruction))]))]
        ELSE msgs

\* body, as it stands when it is serialized
RequestBody(r) ==
    IF Truthy(r.jsonSchema)
    THEN Obj(<<<<"model", r.model>>,
               <<"messages", Arr(AppendJsonInstruction(Messages(r)))>>,
               <<"stream", Bool(FALSE)>>,
               <<"response_format", Obj(<<<<"type", Str(JsonObjectMode)>>>>)>>>>)
    ELSE Obj(<<<<"model", r.model>>,
               <<"messages", Arr(Messages(r))>>,
               <<"stream", Bool(FALSE)>>>>)

\* s.replace(/\/$/, ''): one trailing slash only
StripOneSlash(s) ==
    IF s /= <<>> /\ s[Len(s)] = "/" THEN SubSeq(s, 1, Len(s) - 1) ELSE s

\* the endpoint with a single trailing slash removed
EndpointOneSlash(baseUrl) ==
    LET cleanBaseUrl == StripOneSlash(baseUrl.val)
    IN  IF EndsWith(cleanBaseUrl, ChatCompletionsSuffix)
        THEN Str(cleanBaseUrl)
        ELSE Str(cleanBaseUrl \o ChatCompletionsSuffix)

RECURSIVE StripTrailingSlashes(_)
\* s.replace(/\/+$/, '')
StripTrailingSlashes(s) ==
    IF s /= <<>> /\ s[Len(s)] = "/"
    THEN StripTrailingSlashes(SubSeq(s, 1, Len(s) - 1))
    ELSE s

\* endpoint, from req.baseUrl
Endpoint(baseUrl) ==
    LET cleanBaseUrl == StripTrailingSlashes(baseUrl.val)
    IN  IF EndsWith(cleanBaseUrl, ChatCompletionsSuffix)
        THEN Str(cleanBaseUrl)
        ELSE Str(cleanBaseUrl \o ChatCompletionsSuffix)

Headers(r) ==
    Obj(<<<<"Content-Type", Str(ApplicationJson)>>,
          <<"Authorization", Str(BearerPrefix \o r.apiKey.val)>>>>)

(***************************************************************************)
(* JSON.stringify(body), line 77.                                          *)
(***************************************************************************)
KeyChars(k) ==
    CASE k = "model" -> <<"m", "o", "d", "e", "l">>
      [] k = "messages" -> <<"m", "e", "s", "s", "a", "g", "e", "s">>
      [] k = "stream" -> <<"s", "t", "r", "e", "a", "m">>
      [] k = "response_format" -> <<"r", "e", "s", "p", "o", "n", "s", "e", "_", "f", "o", "r",
                                    "m", "a", "t">>
      [] k = "type" -> <<"t", "y", "p", "e">>
      [] k = "role" -> <<"r", "o", "l", "e">>
      [] k = "content" -> <<"c", "o", "n", "t", "e", "n", "t">>
      [] k = "text" -> <<"t", "e", "x", "t">>
      [] k = "image_url" -> <<"i", "m", "a", "g", "e", "_", "u", "r", "l">>
      [] k = "url" -> <<"u", "r", "l">>

Quote(s) ==
    LET esc(c) == CASE c = "\"" -> <<"\\", "\"">>
                    [] c = "\\" -> <<"\\", "\\">>
                    [] c = "\n" -> <<"\\", "n">>
                    [] OTHER -> <<c>>
        F[i \in 0..Len(s)] == IF i = 0 THEN <<>> ELSE F[i - 1] \o esc(s[i])
    IN  <<"\"">> \o F[Len(s)] \o <<"\"">>

RECURSIVE JSONStringify(_)
JSONStringify(v) ==
    CASE v.tag = "string" -> Quote(v.val)
      [] v.tag = "boolean" -> IF v.val THEN <<"t", "r", "u", "e">> ELSE <<"f", "a", "l", "s", "e">>
      [] v.tag = "null" -> <<"n", "u", "l", "l">>
      [] v.tag = "array" ->
            LET item(i) == IF v.items[i].tag = "undefined"
                           THEN JSONStringify(Null)
                           ELSE JSONStringify(v.items[i])
                F[i \in 0..Len(v.items)] ==
                    IF i = 0 THEN <<>>
                    ELSE F[i - 1] \o (IF i > 1 THEN <<",">> ELSE <<>>) \o item(i)
            IN  <<"[">> \o F[Len(v.items)] \o <<"]">>
      [] v.tag = "object" ->
            \* a property whose value is undefined is left out
            LET kept == SelectSeq(v.props, LAMBDA p : p[2].tag /= "undefined")
                F[i \in 0..Len(kept)] ==
                    IF i = 0 THEN <<>>
                    ELSE F[i - 1] \o (IF i > 1 THEN <<",">> ELSE <<>>)
                         \o Quote(KeyChars(kept[i][1])) \o <<":">>
                         \o JSONStringify(kept[i][2])
            IN  <<"{">> \o F[Len(kept)] \o <<"}">>

(***************************************************************************)
(* The native-mode request, lines 99-120.                                  *)
(***************************************************************************)
\* the text part pushed before the image part, as compatible mode orders them
PartsTextFirst(r) ==
    <<Obj(<<<<"text", r.prompt>>>>)>>
    \o (IF Truthy(r.image)
        THEN <<Obj(<<<<"inlineData",
                       Obj(<<<<"mimeType", MimeType(r)>>, <<"data", r.image>>>>)>>>>)>>
        ELSE <<>>)

Parts(r) ==
    (IF Truthy(r.image)
     THEN <<Obj(<<<<"inlineData",
                    Obj(<<<<"mimeType", MimeType(r)>>, <<"data", r.image>>>>)>>>>)>>
     ELSE <<>>)
    \o <<Obj(<<<<"text", r.prompt>>>>)>>

Config(r) ==
    LET c0 == Obj(<<>>)
        c1 == IF Truthy(r.systemInstruction)
              THEN SetProp(c0, "systemInstruction", r.systemInstruction)
              ELSE c0
    IN  IF Truthy(r.jsonSchema)
        THEN SetProp(SetProp(c1, "responseMimeType", Str(ApplicationJson)),
                     "responseSchema", r.jsonSchema)
        ELSE c1

GenerateParams(r) ==
    Obj(<<<<"model", r.model>>,
          <<"contents", Obj(<<<<"parts", Arr(Parts(r))>>>>)>>,
          <<"config", Config(r)>>>>)

(***************************************************************************)
(* What is made of a response.                                             *)
(***************************************************************************)
\* Response.ok
ResponseOk(status) == status \in 200..299

RECURSIVE NumberToString(_)
\* `${response.status}`
NumberToString(n) ==
    LET digit == <<"0", "1", "2", "3", "4", "5", "6", "7", "8", "9">>[(n % 10) + 1]
    IN  IF n < 10 THEN <<digit>> ELSE Append(NumberToString(n \div 10), digit)

Error(name, message, line) == [name |-> name, message |-> message, line |-> line]

\* the API error without the status
ApiErrorTextOnly(status, errorText) ==
    Error("Error", ApiErrorPrefix \o errorText, 82)

\* new Error(`API Error ${response.status}: ${errorText}`)
ApiError(status, errorText) ==
    Error("Error", ApiErrorPrefix \o NumberToString(status) \o ColonSpace \o errorText, 82)

\* data.choices?.[0]?.message?.content, for data that is not null
ExtractContent(data) ==
    OptGet(OptGet(OptIndex(Get(data, "choices"), 0), "message"), "content")

\* the test result == null: only a missing content counts as no content
NoContentOnlyMissing(result) == result.tag \in {"undefined", "null"}

\* if (!result)
NoContent(result) == ~Truthy(result)

\* new Error(`AI Request Failed: ${e.message}`)
Wrap(e) == Error("Error", FailedPrefix \o e.message, 92)

\* response.text, with no fallback
SdkTextNoFallback(resp) == Get(resp, "text")

\* response.text || ""
SdkText(resp) == OrElse(Get(resp, "text"), Str(<<>>))

Pending == [state |-> "pending"]

Fulfilled(v) == [state |-> "fulfilled", value |-> v]

Rejected(e) == [state |-> "rejected", reason |-> e]

(***************************************************************************)
(* The requests a call is given, and what the remote side answers.         *)
(***************************************************************************)
MaxPieces == 3

\* what a base URL is put together from
UrlPieces == {<<"h", "t", "t", "p", "s", ":", "/", "/", "x", ".", "t", "e",
                "s", "t">>, <<"/", "v", "1">>, <<"/">>, ChatCompletionsSuffix}

RECURSIVE Concats(_)
Concats(n) ==
    IF n = 0 THEN {<<>>}
    ELSE {s \o p : s \in Concats(n - 1), p \in UrlPieces}

BaseUrls == {Undefined} \cup {Str(s) : s \in UNION {Concats(n) : n \in 0..MaxPieces}}

Requests ==
    [apiKey : {Str(<<"s", "k", "-", "1">>)},
     model : {Str(<<"q", "w", "e", "n">>)},
     baseUrl : BaseUrls,
     prompt : {Str(<<"h", "i">>)},
     systemInstruction : {Undefined, Str(<<>>), Str(<<"b", "e", " ", "b", "r", "i", "e", "f">>)},
     image : {Undefined, Str(<<>>), Str(<<"Q", "U", "J", "D">>)},
     mimeType : {Undefined, Str(<<>>), Str(<<"i", "m", "a", "g", "e", "/", "j", "p", "e", "g">>)},
     jsonSchema : {Undefined, Obj(<<<<"type", Str(<<"O", "B", "J", "E", "C", "T">>)>>>>)}]

Statuses == {200, 404, 500}

BodyTexts == {<<>>, <<"s", "e", "r", "v", "e", "r", " ", "e", "r", "r", "o", "r">>}

Hello == Str(<<"h", "e", "l", "l", "o">>)

Choice(content) == Obj(<<<<"message", Obj(<<<<"content", content>>>>)>>>>)

\* what response.json() may deliver
JsonBodies ==
    {Null,
     Obj(<<>>),
     Obj(<<<<"choices", Null>>>>),
     Obj(<<<<"choices", Arr(<<>>)>>>>),
     Obj(<<<<"choices", Arr(<<Null>>)>>>>),
     Obj(<<<<"choices", Arr(<<Obj(<<>>)>>)>>>>),
     Obj(<<<<"choices", Arr(<<Obj(<<<<"message", Obj(<<>>)>>>>)>>)>>>>),
     Obj(<<<<"choices", Arr(<<Choice(Null)>>)>>>>),
     Obj(<<<<"choices", Arr(<<Choice(Str(<<>>))>>)>>>>),
     Obj(<<<<"choices", Arr(<<Choice(Hello)>>)>>>>),
     Obj(<<<<"choices", Arr(<<Choice(Str(<<>>)), Choice(Hello)>>)>>>>),
     Obj(<<<<"choices", Arr(<<Choice(Hello), Choice(Str(<<"x">>))>>)>>>>)}

\* what the SDK may resolve to
SdkResponses ==
    {Obj(<<>>), Obj(<<<<"text", Str(<<>>)>>>>), Obj(<<<<"text", Hello>>>>)}

\* what fetch, response.text() and response.json() may reject with
FetchFailure == Error("TypeError", <<"F", "a", "i", "l", "e", "d", " ", "t", "o", " ", "f", "e",
                                     "t", "c", "h">>, 71)

TextFailure == Error("TypeError", <<"n", "e", "t", "w", "o", "r", "k", " ", "e", "r", "r", "o",
                                    "r">>, 81)

JsonFailure == Error("SyntaxError", <<"U", "n", "e", "x", "p", "e", "c", "t", "e", "d", " ", "t",
                                      "o", "k", "e", "n", " ", "<", " ", "i", "n", " ", "J", "S",
                                      "O", "N">>, 85)

NullFailure == Error("TypeError", <<"C", "a", "n", "n", "o", "t", " ", "r", "e", "a", "d", " ",
                                    "p", "r", "o", "p", "e", "r", "t", "i", "e", "s", " ", "o",
                                    "f", " ", "n", "u", "l", "l">>, 86)

SdkFailure == Error("ApiError", <<"g", "o", "t", " ", "s", "t", "a", "t", "u", "s", ":", " ",
                                  "4", "2", "9">>, 116)

(***************************************************************************)
(* The call.                                                               *)
(***************************************************************************)
NoResponse == [status |-> 0, read |-> "none"]

Init ==
    /\ req \in Requests
    /\ pc = "start"
    /\ body = Undefined
    /\ fetchCalls = <<>>
    /\ clients = <<>>
    /\ sdkCalls = <<>>
    /\ response = NoResponse
    /\ outcome = Pending
    /\ console = <<>>

\* the path chosen by the presence of baseUrl, not by its truth
UseCompatibleIfPresent(r) == r.baseUrl.tag /= "undefined"

\* if (req.baseUrl)
UseCompatible(r) == Truthy(r.baseUrl)

\* lines 24-78: the request is built and fetch is called
CompatibleRequest ==
    /\ pc = "start"
    /\ UseCompatible(req)
    /\ body' = RequestBody(req)
    /\ fetchCalls' = Append(fetchCalls,
           <<Endpoint(req.baseUrl),
             Obj(<<<<"method", Str(<<"P", "O", "S", "T">>)>>,
                   <<"headers", Headers(req)>>,
                   <<"body", Str(JSONStringify(RequestBody(req)))>>>>)>>)
    /\ pc' = "awaitFetch"
    /\ UNCHANGED <<req, clients, sdkCalls, response, outcome, console>>

\* lines 90-93: the error is logged, wrapped and thrown
Catch(e) ==
    /\ console' = Append(console, e)
    /\ outcome' = Rejected(Wrap(e))
    /\ pc' = "settled"

\* fetch rejects and the request is sent once more
FetchRejectsRetry ==
    /\ pc = "awaitFetch"
    /\ Len(fetchCalls) < 2
    /\ fetchCalls' = Append(fetchCalls, fetchCalls[1])
    /\ UNCHANGED <<req, pc, body, clients, sdkCalls, response, outcome, console>>

\* fetch rejects
FetchRejects ==
    /\ pc = "awaitFetch"
    /\ Catch(FetchFailure)
    /\ UNCHANGED <<req, body, fetchCalls, clients, sdkCalls, response>>

\* fetch resolves: line 80 decides which way the body is read
FetchResolves ==
    /\ pc = "awaitFetch"
    /\ \E status \in Statuses :
          /\ response' = [status |-> status, read |-> "none"]
          /\ pc' = IF ~ResponseOk(status) THEN "awaitText" ELSE "awaitJson"
    /\ UNCHANGED <<req, body, fetchCalls, clients, sdkCalls, outcome, console>>

\* lines 81-82: the body is read as text and the API error is thrown
TextResolves ==
    /\ pc = "awaitText"
    /\ \E errorText \in BodyTexts :
          /\ response' = [status |-> response.status, read |-> "text",
                          text |-> errorText]
          /\ Catch(ApiError(response.status, errorText))
    /\ UNCHANGED <<req, body, fetchCalls, clients, sdkCalls>>

\* response.text() rejects
TextRejects ==
    /\ pc = "awaitText"
    /\ response' = [status |-> response.status, read |-> "failed"]
    /\ Catch(TextFailure)
    /\ UNCHANGED <<req, body, fetchCalls, clients, sdkCalls>>

\* lines 85-89: the body is parsed and the content is taken out of it
JsonResolves ==
    /\ pc = "awaitJson"
    /\ \E data \in JsonBodies :
          /\ response' = [status |-> response.status, read |-> "json",
                          data |-> data]
          /\ IF data.tag = "null"
             THEN Catch(NullFailure)
             ELSE LET result == ExtractContent(data)
                  IN  IF NoContent(result)
                      THEN Catch(Error("Error", NoContentMessage, 88))
                      ELSE /\ outcome' = Fulfilled(result)
                           /\ pc' = "settled"
                           /\ UNCHANGED console
    /\ UNCHANGED <<req, body, fetchCalls, clients, sdkCalls>>

\* response.json() rejects: the body is not JSON, or the read fails
JsonRejects ==
    /\ pc = "awaitJson"
    /\ response' = [status |-> response.status, read |-> "failed"]
    /\ Catch(JsonFailure)
    /\ UNCHANGED <<req, body, fetchCalls, clients, sdkCalls>>

\* lines 99-120: the client, the parts and the config are built and the
\* SDK is called
GeminiRequest ==
    /\ pc = "start"
    /\ ~UseCompatible(req)
    /\ clients' = Append(clients, Obj(<<<<"apiKey", req.apiKey>>>>))
    /\ sdkCalls' = Append(sdkCalls, GenerateParams(req))
    /\ pc' = "awaitSdk"
    /\ UNCHANGED <<req, body, fetchCalls, response, outcome, console>>

\* line 122
SdkResolves ==
    /\ pc = "awaitSdk"
    /\ \E resp \in SdkResponses :
          /\ response' = [status |-> 0, read |-> "sdk", data |-> resp]
          /\ outcome' = Fulfilled(SdkText(resp))
    /\ pc' = "settled"
    /\ UNCHANGED <<req, body, fetchCalls, clients, sdkCalls, console>>

\* the SDK call rejects: nothing catches it
SdkRejects ==
    /\ pc = "awaitSdk"
    /\ outcome' = Rejected(SdkFailure)
    /\ pc' = "settled"
    /\ UNCHANGED <<req, body, fetchCalls, clients, sdkCalls, response, console>>

Next ==
    \/ CompatibleRequest
    \/ FetchRejects
    \/ FetchResolves
    \/ TextResolves
    \/ TextRejects
    \/ JsonResolves
    \/ JsonRejects
    \/ GeminiRequest
    \/ SdkResolves
    \/ SdkRejects

Spec == Init /\ [][Next]_vars

(***************************************************************************)
(* What the claims read off a state.                                       *)
(***************************************************************************)
\* an optional field of the request that was given, whatever its value
Present(v) == v.tag /= "undefined"

\* an optional string field that was given and is not the empty string
NonEmpty(v) == v.tag = "string" /\ Len(v.val) > 0

Called == pc /= "start"

Settled == pc = "settled"

\* the URL fetch was called with
Target == fetchCalls[1][1].val

\* the text fetch was given as its body
SentBody == Get(fetchCalls[1][2], "body").val

\* the messages of the body, the user message and its parts
BodyMessages == Get(body, "messages").items

UserMessage == BodyMessages[Len(BodyMessages)]

UserParts == Get(UserMessage, "content").items

UserText == Get(UserParts[1], "text").val

(***************************************************************************)
(* C1: a call takes exactly one of the two paths, chosen by baseUrl alone: *)
(* with baseUrl set and non-empty, fetch is called and no GoogleGenAI      *)
(* client is ever constructed or invoked; with baseUrl absent or the empty *)
(* string the SDK is constructed and invoked and fetch is never called.    *)
(***************************************************************************)
C1_PathChosenByBaseUrl ==
    IF NonEmpty(req.baseUrl)
    THEN /\ clients = <<>> /\ sdkCalls = <<>>
         /\ Called => Len(fetchCalls) >= 1
    ELSE /\ fetchCalls = <<>> /\ body = Undefined
         /\ Called => Len(clients) >= 1 /\ Len(sdkCalls) >= 1

\* a call given the empty string as baseUrl has gone through the SDK
C1_Witness ==
    /\ Settled
    /\ req.baseUrl = Str(<<>>)
    /\ Len(sdkCalls) = 1

(***************************************************************************)
(* C2 as stated: the target is baseUrl without its trailing slashes,       *)
(* followed by /chat/completions unless it ends with it already; so the    *)
(* target always ends with exactly one /chat/completions and never with a  *)
(* slash.                                                                  *)
(***************************************************************************)
\* c is b with all its trailing slashes removed
IsStripped(c, b) ==
    \E k \in 0..Len(b) :
        /\ c = SubSeq(b, 1, k)
        /\ k > 0 => b[k] /= "/"
        /\ \A i \in (k + 1)..Len(b) : b[i] = "/"

\* t is the target the claim gives for the base URL b
IsTargetOf(t, b) ==
    \E k \in 0..Len(b) :
        LET c == SubSeq(b, 1, k)
        IN  /\ IsStripped(c, b)
            /\ t = IF EndsWith(c, ChatCompletionsSuffix)
                   THEN c
                   ELSE c \o ChatCompletionsSuffix

TwoSuffixes == ChatCompletionsSuffix \o ChatCompletionsSuffix

C2_ExactlyOneSuffix ==
    fetchCalls /= <<>> =>
        /\ IsTargetOf(Target, req.baseUrl.val)
        /\ EndsWith(Target, ChatCompletionsSuffix)
        /\ ~EndsWith(Target, TwoSuffixes)
        /\ Target[Len(Target)] /= "/"

(***************************************************************************)
(* C2 as amended: the target is computed as stated, always ends with       *)
(* /chat/completions and never with a slash, and no second suffix is added:*)
(* it ends with two of them only when baseUrl, its trailing slashes        *)
(* removed, already does.                                                  *)
(***************************************************************************)
C2_SuffixNotDuplicated ==
    fetchCalls /= <<>> =>
        /\ IsTargetOf(Target, req.baseUrl.val)
        /\ EndsWith(Target, ChatCompletionsSuffix)
        /\ Target[Len(Target)] /= "/"
        /\ EndsWith(Target, TwoSuffixes) =>
              \E c \in {SubSeq(req.baseUrl.val, 1, k) : k \in 0..Len(req.baseUrl.val)} :
                  IsStripped(c, req.baseUrl.val) /\ EndsWith(c, TwoSuffixes)
        /\ req.baseUrl.val = <<"h", "t", "t", "p", "s", ":", "/", "/", "x", ".", "t", "e",
                               "s", "t", "/", "v", "1", "/">>
              => Target = <<"h", "t", "t", "p", "s", ":", "/", "/", "x", ".", "t", "e",
                            "s", "t", "/", "v", "1", "/", "c", "h", "a", "t", "/", "c",
                            "o", "m", "p", "l", "e", "t", "i", "o", "n", "s">>
        /\ req.baseUrl.val = <<"h", "t", "t", "p", "s", ":", "/", "/", "x", ".", "t", "e",
                               "s", "t", "/", "v", "1", "/", "c", "h", "a", "t", "/", "c",
                               "o", "m", "p", "l", "e", "t", "i", "o", "n", "s">>
              => Target = req.baseUrl.val

\* https://x.test/v1/ has been turned into https://x.test/v1/chat/completions
C2_Witness ==
    /\ fetchCalls /= <<>>
    /\ req.baseUrl.val = <<"h", "t", "t", "p", "s", ":", "/", "/", "x", ".", "t", "e",
                           "s", "t", "/", "v", "1", "/">>
    /\ Target = <<"h", "t", "t", "p", "s", ":", "/", "/", "x", ".", "t", "e",
                  "s", "t", "/", "v", "1", "/", "c", "h", "a", "t", "/", "c",
                  "o", "m", "p", "l", "e", "t", "i", "o", "n", "s">>

(***************************************************************************)
(* C3: in compatible mode, with jsonSchema present the body carries        *)
(* response_format = {type: "json_object"} and the text of the user        *)
(* message is the prompt followed by "\n\nPlease respond in valid JSON     *)
(* format.", with or without a system message or an image part; with       *)
(* jsonSchema absent the body has no response_format and the text is the   *)
(* prompt unchanged.  The same is read off the text that is sent.          *)
(***************************************************************************)
C3_JsonMode ==
    fetchCalls /= <<>> =>
        IF Present(req.jsonSchema)
        THEN /\ Get(body, "response_format") = Obj(<<<<"type", Str(JsonObjectMode)>>>>)
             /\ UserText = req.prompt.val \o JsonInstruction
             /\ Contains(SentBody, <<"\"", "r", "e", "s", "p", "o", "n", "s", "e", "_", "f", "o",
                                     "r", "m", "a", "t", "\"", ":", "{", "\"", "t", "y", "p", "e",
                                     "\"", ":", "\"", "j", "s", "o", "n", "_", "o", "b", "j", "e",
                                     "c", "t", "\"", "}">>)
             /\ Contains(SentBody,
                   <<"\"", "t", "e", "x", "t", "\"", ":", "\"">> \o req.prompt.val
                   \o <<"\\", "n", "\\", "n">>
                   \o SubSeq(JsonInstruction, 3, Len(JsonInstruction)) \o <<"\"">>)
        ELSE /\ ~HasProp(body, "response_format")
             /\ UserText = req.prompt.val
             /\ ~Contains(SentBody, <<"r", "e", "s", "p", "o", "n", "s", "e", "_", "f", "o", "r",
                                      "m", "a", "t">>)
             /\ Contains(SentBody,
                   <<"\"", "t", "e", "x", "t", "\"", ":", "\"">> \o req.prompt.val
                   \o <<"\"">>)

\* a body built for a request with a schema, a system instruction and an image
C3_Witness ==
    /\ fetchCalls /= <<>>
    /\ Present(req.jsonSchema)
    /\ NonEmpty(req.systemInstruction)
    /\ NonEmpty(req.image)
    /\ Len(BodyMessages) = 2
    /\ Len(UserParts) = 2
    /\ UserText = req.prompt.val \o JsonInstruction

(***************************************************************************)
(* C4: in compatible mode, when the endpoint answers with a status that is *)
(* not a success, the call fails and never returns text, the body is read  *)
(* as text and not parsed as JSON, and the message of the error holds the  *)
(* status code and the body text that was read (500 and "server error"     *)
(* give a message holding "500" and "server error").                       *)
(***************************************************************************)
NonSuccess == response.status /= 0 /\ response.status \notin 200..299

HasContent(data) ==
    /\ data.tag = "object"
    /\ HasProp(data, "choices")
    /\ LET choices == Get(data, "choices")
       IN  /\ choices.tag = "array"
           /\ Len(choices.items) >= 1
           /\ HasProp(choices.items[1], "message")
           /\ HasProp(Get(choices.items[1], "message"), "content")
           /\ NonEmpty(Get(Get(choices.items[1], "message"), "content"))

ContentOf(data) == Get(Get(Get(data, "choices").items[1], "message"), "content")

Success == response.status \in 200..299

C5_ContentOrNoContent ==
    (Success /\ Settled) =>
        /\ outcome.state = "fulfilled"
              <=> (response.read = "json" /\ HasContent(response.data))
        /\ outcome.state = "fulfilled" =>
              /\ outcome.value = ContentOf(response.data)
              /\ outcome.value /= Str(<<>>)
        /\ (response.read = "json" /\ response.data.tag = "object"
                /\ ~HasContent(response.data)) =>
              /\ outcome.state = "rejected"
              /\ Contains(outcome.reason.message, NoContentMessage)

\* a success whose first choice has the empty string as content has failed
C5_Witness ==
    /\ Settled
    /\ Success
    /\ response.read = "json"
    /\ response.data = Obj(<<<<"choices", Arr(<<Choice(Str(<<>>))>>)>>>>)
    /\ outcome.state = "rejected"

(***************************************************************************)
(* C6: in native mode, when the SDK call completes without throwing, the   *)
(* call resolves: to the text of the response when it is present and not   *)
(* empty, to the empty string when it is absent or empty.                  *)
(***************************************************************************)
C6_SdkTextOrEmpty ==
    response.read = "sdk" =>
        /\ outcome.state = "fulfilled"
        /\ outcome.value = IF NonEmpty(Get(response.data, "text"))
                           THEN Get(response.data, "text")
                           ELSE Str(<<>>)

\* a response of the SDK with no text has resolved the call to ""
C6_Witness ==
    /\ Settled
    /\ response.read = "sdk"
    /\ ~HasProp(response.data, "text")
    /\ outcome = Fulfilled(Str(<<>>))

(***************************************************************************)
(* C7: on both paths every failure is caught and thrown again as the one   *)
(* error built at line 92, "AI Request Failed: " followed by the original  *)
(* message: no call ends with the raw error of the transport or the SDK,   *)
(* and every call that ends yields text or fails with that error.          *)
(***************************************************************************)
C7_EveryFailureWrapped ==
    /\ outcome.state = "rejected" =>
          /\ outcome.reason.line = 92
          /\ StartsWith(outcome.reason.message, FailedPrefix)
    /\ Settled => outcome.state \in {"fulfilled", "rejected"}

(***************************************************************************)
(* C8: every call, on either path and however it ends, issues exactly one  *)
(* outbound call, one fetch POST or one SDK generation call: nothing is    *)
(* sent again after a transport error, a non-success status or an empty    *)
(* response, and no call ends having issued none or more than one.         *)
(***************************************************************************)
Issued == Len(fetchCalls) + Len(sdkCalls)

C8_ExactlyOneCall ==
    /\ Issued <= 1
    /\ Called => Issued = 1
    /\ Settled => Issued = 1
    /\ \A i \in 1..Len(fetchCalls) :
          Get(fetchCalls[i][2], "method") = Str(<<"P", "O", "S", "T">>)

\* a call whose fetch was rejected has ended with one fetch behind it
C8_Witness ==
    /\ Settled
    /\ outcome.state = "rejected"
    /\ response.read = "none"
    /\ Len(fetchCalls) = 1
    /\ sdkCalls = <<>>

(***************************************************************************)
(* C9 and C10 read the image part off the request: the MIME type the code  *)
(* is to use, and the data URI of compatible mode.                         *)
(***************************************************************************)
\* the MIME type of a request that gives one, image/png otherwise
MimeOf(r) == IF NonEmpty(r.mimeType) THEN r.mimeType.val ELSE DefaultMimeType

\* whether url is the data URI of the request's image: its MIME type is
\* settled when the request gives none or gives one that is not empty
IsDataUriOf(url, r) ==
    /\ url.tag = "string"
    /\ \E mime \in {MimeOf(r)} \cup (IF Present(r.mimeType) THEN {r.mimeType.val} ELSE {}) :
          url.val = <<"d", "a", "t", "a", ":">> \o mime \o <<";", "b", "a", "s", "e", "6", "4", ",">> \o r.image.val
    /\ ~Present(r.mimeType) =>
          url.val = <<"d", "a", "t", "a", ":", "i", "m", "a", "g", "e", "/", "p",
                      "n", "g", ";", "b", "a", "s", "e", "6", "4", ",">> \o r.image.val

\* the messages of compatible mode, with hasImage saying when the image
\* part is to be there
MessagesAre(hasImage) ==
    /\ Len(BodyMessages) = IF NonEmpty(req.systemInstruction) THEN 2 ELSE 1
    /\ NonEmpty(req.systemInstruction) =>
          BodyMessages[1] = Obj(<<<<"role", Str(<<"s", "y", "s", "t", "e", "m">>)>>,
                                  <<"content", req.systemInstruction>>>>)
    /\ Get(UserMessage, "role") = Str(<<"u", "s", "e", "r">>)
    /\ \A i \in 1..(Len(BodyMessages) - 1) :
          Get(BodyMessages[i], "role") /= Str(<<"u", "s", "e", "r">>)
    /\ Get(UserMessage, "content").tag = "array"
    /\ Get(UserParts[1], "type") = Str(<<"t", "e", "x", "t">>)
    /\ StartsWith(UserText, req.prompt.val)
    /\ Len(UserParts) = IF hasImage THEN 2 ELSE 1
    /\ hasImage =>
          /\ Get(UserParts[2], "type") = Str(<<"i", "m", "a", "g", "e", "_", "u", "r", "l">>)
          /\ IsDataUriOf(Get(Get(UserParts[2], "image_url"), "url"), req)

(***************************************************************************)
(* C9 as stated: the messages are one system message first if and only if  *)
(* systemInstruction is present and non-empty, then exactly one user       *)
(* message, always last, whose content is a sequence of parts: the text    *)
(* part first and, if and only if image is present, an image_url part      *)
(* second with the url data:<mimeType>;base64,<image>, the MIME type being *)
(* image/png when the request gives none.                                  *)
(***************************************************************************)
C9_ImagePartIffPresent ==
    fetchCalls /= <<>> => MessagesAre(Present(req.image))

(***************************************************************************)
(* C9 as amended: the same, the image_url part being there if and only if  *)
(* image is present and non-empty, and the MIME type being image/png when  *)
(* the request gives none or gives the empty string.                       *)
(***************************************************************************)
C9_ImagePartIffNonEmpty ==
    fetchCalls /= <<>> =>
        /\ MessagesAre(NonEmpty(req.image))
        /\ NonEmpty(req.image) =>
              Get(Get(UserParts[2], "image_url"), "url").val
                  = <<"d", "a", "t", "a", ":">> \o MimeOf(req) \o <<";", "b", "a", "s", "e", "6", "4", ",">> \o req.image.val

\* a request with a system instruction and an image but no MIME type has
\* its two messages, the image part second with an image/png data URI
C9_Witness ==
    /\ fetchCalls /= <<>>
    /\ NonEmpty(req.systemInstruction)
    /\ NonEmpty(req.image)
    /\ ~Present(req.mimeType)
    /\ Len(BodyMessages) = 2
    /\ Len(UserParts) = 2
    /\ Get(Get(UserParts[2], "image_url"), "url")
          = Str(<<"d", "a", "t", "a", ":", "i", "m", "a", "g", "e", "/", "p",
                  "n", "g", ";", "b", "a", "s", "e", "6", "4", ",", "Q", "U",
                  "J", "D">>)

(***************************************************************************)
(* C10 reads the one SDK call: its parts and its config.                   *)
(***************************************************************************)
SdkParts == Get(Get(sdkCalls[1], "contents"), "parts").items

SdkConfig == Get(sdkCalls[1], "config")

\* the parts and the config of native mode, with hasImage and hasSystem
\* saying when the image part and the system instruction are to be there
SdkCallIs(hasImage, hasSystem) ==
    /\ Len(SdkParts) = IF hasImage THEN 2 ELSE 1
    /\ hasImage =>
          SdkParts[1] = Obj(<<<<"inlineData",
                                Obj(<<<<"mimeType", Str(MimeOf(req))>>,
                                      <<"data", req.image>>>>)>>>>)
    /\ SdkParts[Len(SdkParts)] = Obj(<<<<"text", req.prompt>>>>)
    /\ \A i \in 1..(Len(SdkParts) - 1) : ~HasProp(SdkParts[i], "text")
    /\ IF Present(req.jsonSchema)
       THEN /\ Get(SdkConfig, "responseMimeType") = Str(<<"a", "p", "p", "l", "i", "c", "a", "t", "i", "o", "n", "/",
                                                          "j", "s", "o", "n">>)
            /\ Get(SdkConfig, "responseSchema") = req.jsonSchema
       ELSE /\ ~HasProp(SdkConfig, "responseMimeType")
            /\ ~HasProp(SdkConfig, "responseSchema")
    /\ hasSystem => Get(SdkConfig, "systemInstruction") = req.systemInstruction
    /\ \A i \in 1..Len(SdkParts) :
          HasProp(SdkParts[i], "text") =>
              Get(SdkParts[i], "text") /= req.systemInstruction

(***************************************************************************)
(* C10 as stated: the parts are an inlineData part {mimeType, data: image} *)
(* first if and only if image is present (the MIME type defaulting to      *)
(* image/png), then always exactly one text part, last, whose text is the  *)
(* prompt exactly; with jsonSchema present the config carries              *)
(* responseMimeType "application/json" and responseSchema = jsonSchema and *)
(* nothing is added to the prompt; with systemInstruction present it is    *)
(* set in the config and is not a part.                                    *)
(***************************************************************************)
C10_PartsIffPresent ==
    sdkCalls /= <<>> =>
        SdkCallIs(Present(req.image), Present(req.systemInstruction))

(***************************************************************************)
(* C10 as amended: the same, the inlineData part being there if and only   *)
(* if image is present and non-empty, and systemInstruction being set in   *)
(* the config if and only if it is present and non-empty.                  *)
(***************************************************************************)
C10_PartsIffNonEmpty ==
    sdkCalls /= <<>> =>
        /\ SdkCallIs(NonEmpty(req.image), NonEmpty(req.systemInstruction))
        /\ HasProp(SdkConfig, "systemInstruction") <=> NonEmpty(req.systemInstruction)

\* a request with an image, a schema and a system instruction has its
\* image part first, its prompt last and both set in the config
C10_Witness ==
    /\ sdkCalls /= <<>>
    /\ NonEmpty(req.image)
    /\ Present(req.jsonSchema)
    /\ NonEmpty(req.systemInstruction)
    /\ Len(SdkParts) = 2
    /\ HasProp(SdkParts[1], "inlineData")
    /\ SdkParts[2] = Obj(<<<<"text", req.prompt>>>>)
    /\ HasProp(SdkConfig, "responseSchema")
    /\ HasProp(SdkConfig, "systemInstruction")

====
